---- MODULE Spec2Model ----
(***************************************************************************)
(* The AnyToAny bot of demo_bots/any_to_any/bot.py, run tick by tick by    *)
(* demo_bots/tasks.py: every tick builds a fresh bot (_setup), then runs   *)
(* update_deposits, process_conversions and process_withdrawals over the   *)
(* ledger kept in the store.  The exchange (deposits, order fills, clock)  *)
(* is the environment.  Amounts are integers counted in the smallest unit  *)
(* the model distinguishes; a currency's precision is a step of such units.*)
(***************************************************************************)
EXTENDS Integers, Sequences, FiniteSets, TLC

\* ---------------------------------------------------------------- bounds
MaxAmount == 2      \* largest deposit amount, quotation and fill report
MaxTime == 1        \* the clock runs over 0..MaxTime
MaxOrders == 2      \* market orders placed in one behaviour
MaxFee == 1         \* largest paid_fee an order reports

\* ------------------------------------------------------- the environment
IdSeq == <<"d1", "d2">>
IdSet == {IdSeq[i] : i \in 1..Len(IdSeq)}
DepositStates == {"pending_confirmation", "confirmed"}
\* The first deposit comes to the address a configuration may name, the
\* second to another one; their amounts differ by one unit, so that one is a
\* multiple of the base currency's step and the other is not.
AddressOf(id) == IF id = "d1" THEN "addr1" ELSE "addr2"
AmountOf(id) == IF id = "d1" THEN MaxAmount - 1 ELSE MaxAmount
FromAddresses == {"Any", "addr1"}
Currencies == {"btc", "usd"}
Markets == {[base_currency |-> "btc", quote_currency |-> "usd"]}
Precision == [c \in Currencies |-> IF c = "btc" THEN 2 ELSE 1]
WithdrawalStates == {"pending_preparation", "rejected"}
NoDeposit == [id |-> "none"]
NoOrder == [id |-> 0, amount |-> 0]
NoDate == -1

VARIABLES
    now,            \* the clock read by datetime.utcnow() and by the exchange
    exDeposits,     \* the exchange's deposits into the source wallet, by id
    from_currency,  \* config['from']['currency']; the other one is the target
    store,          \* the ledger snapshot under from_currency + '_deposits'
    pc,             \* where the current tick stands; "idle" between ticks
    deposits,       \* self.deposits, in insertion order
    start_date,     \* self.start_date of the latest bot instance
    to_withdraw,    \* config['to']['withdraw'] of the current tick
    new_deposits,   \* new_deposits of update_deposits once filtered (line 81)
    cursor,         \* the position of the running for loop
    order,          \* the order process_conversions waits for
    nextOrderId,    \* the identifier the exchange gives the next order
    committed,      \* per deposit: source amount put into market orders
    withdrawals,    \* per deposit: withdrawals that got pending_preparation
    ev              \* what the latest step did

vars == <<now, exDeposits, from_currency, store, pc,
          deposits, start_date, to_withdraw, new_deposits, cursor, order,
          nextOrderId, committed, withdrawals, ev>>

envVars == <<now, exDeposits>>
cfgVars == <<from_currency>>
ghostVars == <<committed, withdrawals>>

\* ------------------------------------------------------------ _setup
to_currency == IF from_currency = "btc" THEN "usd" ELSE "btc"

_get_market(from, to) ==
    LET bases == {m.base_currency : m \in Markets}
        quotes == {m.quote_currency : m \in Markets}
    IN IF from \in bases /\ to \in quotes THEN [base |-> from, quote |-> to]
       ELSE IF from \in quotes /\ to \in bases THEN [base |-> to, quote |-> from]
       ELSE [base |-> "NotImplementedError", quote |-> "NotImplementedError"]

market == _get_market(from_currency, to_currency)

side == IF market.base = from_currency THEN "sell" ELSE "buy"

truncate_to(value, currency) == value - (value % Precision[currency])

\* ------------------------------------------------------------ the ledger
Keys(ledger) == {ledger[i].id : i \in 1..Len(ledger)}

IndexOf(ledger, id) == CHOOSE i \in 1..Len(ledger) : ledger[i].id = id

Event(op, id, notes, raised) ==
    [op |-> op, id |-> id, notes |-> notes, raised |-> raised,
     eligible |-> FALSE, enough |-> FALSE, wstate |-> "none",
     traded_amount |-> 0, total_exchanged |-> 0, paid_fee |-> 0]

NoEvent == Event("none", "none", 0, "none")

Init ==
    /\ now = 0
    /\ exDeposits = [id \in IdSet |-> NoDeposit]
    /\ from_currency \in Currencies
    /\ store = <<>>
    /\ pc = "idle"
    /\ deposits = <<>>
    /\ start_date = NoDate
    /\ to_withdraw = FALSE
    /\ new_deposits = <<>>
    /\ cursor = 0
    /\ order = NoOrder
    /\ nextOrderId = 1
    /\ committed = [id \in IdSet |-> 0]
    /\ withdrawals = [id \in IdSet |-> 0]
    /\ ev = NoEvent

\* ------------------------------------------------------ update_deposits
\* Line 78: the wallet's deposits as the exchange lists them.
get_deposits ==
    SelectSeq([i \in 1..Len(IdSeq) |-> exDeposits[IdSeq[i]]],
              LAMBDA d : d # NoDeposit)

\* Lines 79-81: the address filter, then the creation-time filter.
filter_deposits(list, address, start) ==
    LET byAddress == IF address # "Any"
                     THEN SelectSeq(list, LAMBDA d : d.address = address)
                     ELSE list
    IN SelectSeq(byAddress, LAMBDA d : d.created_at >= start)

\* Lines 90-97: the record of a deposit seen for the first time.
new_record(deposit, withdraw) ==
    [id |-> deposit.id,
     state |-> deposit.state,
     original_amount |-> deposit.amount,
     converted_amount |-> 0,
     converted_value |-> 0,
     orders |-> <<>>,
     pending_withdrawal |-> withdraw]

\* update_one writing the base structure over a record it already holds.
update_one_overwrite(ledger, deposit, withdraw) ==
    IF deposit.id \in Keys(ledger)
    THEN [ledger |-> [ledger EXCEPT ![IndexOf(ledger, deposit.id)] =
                          new_record(deposit, withdraw)],
          notes |-> 1]
    ELSE [ledger |-> Append(ledger, new_record(deposit, withdraw)),
          notes |-> 1]

\* update_one without the comparison of line 86.
update_one_no_compare(ledger, deposit, withdraw) ==
    IF deposit.id \in Keys(ledger)
    THEN [ledger |-> [ledger EXCEPT ![IndexOf(ledger, deposit.id)].state =
                          deposit.state],
          notes |-> 1]
    ELSE [ledger |-> Append(ledger, new_record(deposit, withdraw)),
          notes |-> 1]

\* Lines 84-99: one pass of the loop body, before the store is written.
update_one(ledger, deposit, withdraw) ==
    IF deposit.id \in Keys(ledger)
    THEN LET i == IndexOf(ledger, deposit.id)
         IN IF deposit.state # ledger[i].state
            THEN [ledger |-> [ledger EXCEPT ![i].state = deposit.state],
                  notes |-> 1]
            ELSE [ledger |-> ledger, notes |-> 0]
    ELSE [ledger |-> Append(ledger, new_record(deposit, withdraw)),
          notes |-> 1]

\* Lines 83-101 as a whole: the loop over the filtered list.
RECURSIVE update_all(_, _, _)
update_all(ledger, list, withdraw) ==
    IF list = <<>>
    THEN [ledger |-> ledger, notes |-> 0]
    ELSE LET r == update_one(ledger, Head(list), withdraw)
             rest == update_all(r.ledger, Tail(list), withdraw)
         IN [ledger |-> rest.ledger, notes |-> r.notes + rest.notes]

\* Where _algorithm goes once update_deposits returned.
AfterUpdate(ledger) == IF Len(ledger) = 0 THEN "done" ELSE "convert"

\* run_bot: a new BotTask, whose bot runs _setup (the ledger is loaded, the
\* start date is the clock's reading) and then _algorithm up to line 81 of
\* update_deposits.  config['from']['address'] is read for the last time at
\* line 80 and config['to']['withdraw'] at line 96, inside the loop.
Setup ==
    /\ pc = "idle"
    /\ deposits' = store
    /\ start_date' = now
    /\ cursor' = 1
    /\ \E from_address \in FromAddresses, withdraw \in BOOLEAN :
         LET list == filter_deposits(get_deposits, from_address, now)
         IN /\ new_deposits' = list
            /\ IF list = <<>>
               THEN /\ pc' = AfterUpdate(store)
                    /\ to_withdraw' = FALSE
               ELSE /\ pc' = "update_loop"
                    /\ to_withdraw' = withdraw
    /\ ev' = NoEvent
    /\ UNCHANGED <<envVars, cfgVars, ghostVars, store, order, nextOrderId>>

UpdateOne ==
    /\ pc = "update_loop"
    /\ LET deposit == new_deposits[cursor]
           r == update_one(deposits, deposit, to_withdraw)
       IN /\ deposits' = r.ledger
          /\ store' = r.ledger
          /\ ev' = Event("update_one", deposit.id, r.notes, "none")
          /\ IF cursor < Len(new_deposits)
             THEN /\ cursor' = cursor + 1
                  /\ pc' = pc
                  /\ UNCHANGED <<to_withdraw, new_deposits>>
             ELSE /\ cursor' = 1
                  /\ pc' = AfterUpdate(r.ledger)
                  /\ to_withdraw' = FALSE
                  /\ new_deposits' = <<>>
    /\ UNCHANGED <<envVars, cfgVars, ghostVars, start_date, order, nextOrderId>>

\* -------------------------------------------------- process_conversions
\* convertible without the test of the state.
convertible_any_state(rec) == rec.original_amount - rec.converted_amount > 0

\* convertible taking a record with nothing left as well.
convertible_when_done(rec) ==
    rec.state = "confirmed" /\ rec.original_amount - rec.converted_amount >= 0

\* Line 112: the record takes part in the conversion.
convertible(rec) ==
    rec.state = "confirmed" /\ rec.original_amount - rec.converted_amount > 0

\* Lines 113-117: the size of the order, in the market's base currency.  On
\* the buy side the exchange's quotation turns the remaining quote amount
\* into a base amount.
order_amount(remaining, quotation) ==
    truncate_to(IF side = "buy" THEN quotation ELSE remaining, market.base)

\* traded_totals with the two quantities taken the other way round.
traded_totals_swapped(rec, traded_amount, total_exchanged, paid_fee) ==
    [converted_amount |-> rec.converted_amount
         + (IF side = "buy" THEN traded_amount ELSE total_exchanged),
     converted_value |-> rec.converted_value
         + (IF side = "buy" THEN total_exchanged ELSE traded_amount)
         - paid_fee]

\* Lines 128-134: the totals once the order is traded.
traded_totals(rec, traded_amount, total_exchanged, paid_fee) ==
    [converted_amount |-> rec.converted_amount
         + (IF side = "buy" THEN total_exchanged ELSE traded_amount),
     converted_value |-> rec.converted_value
         + (IF side = "buy" THEN traded_amount ELSE total_exchanged)
         - paid_fee]

\* AfterConvert leaving the loop at the first record handled.
AfterConvert_stop(i, ledger) == [pc |-> "withdraw", cursor |-> 1]

\* Where the loop of process_conversions goes after the record at i.
AfterConvert(i, ledger) ==
    IF i < Len(ledger) THEN [pc |-> "convert", cursor |-> i + 1]
    ELSE [pc |-> "withdraw", cursor |-> 1]

\* One pass of the loop at lines 106-119: a record that is not convertible is
\* passed over; for a convertible one the order is sized and placed.  The
\* exchange either takes the order or returns none (lines 122, 138-141).
ConvertStep ==
    /\ pc = "convert"
    /\ LET rec == deposits[cursor]
           remaining == rec.original_amount - rec.converted_amount
           next == AfterConvert(cursor, deposits)
       IN IF convertible(rec)
          THEN \E quotation \in 0..MaxAmount :
                 /\ side = "sell" => quotation = 0
                 /\ LET amount == order_amount(remaining, quotation)
                    IN \/ /\ amount > 0
                          /\ nextOrderId <= MaxOrders
                          /\ order' = [id |-> nextOrderId, amount |-> amount]
                          /\ nextOrderId' = nextOrderId + 1
                          /\ committed' = [committed EXCEPT ![rec.id] =
                                 @ + (IF side = "buy" THEN remaining ELSE amount)]
                          /\ pc' = "polling"
                          /\ ev' = Event("place_order", rec.id, 1, "none")
                          /\ UNCHANGED <<store, cursor>>
                       \/ /\ store' = deposits
                          /\ pc' = next.pc
                          /\ cursor' = next.cursor
                          /\ ev' = Event("no_order", rec.id, 1, "none")
                          /\ UNCHANGED <<order, nextOrderId, committed>>
          ELSE /\ pc' = next.pc
               /\ cursor' = next.cursor
               /\ ev' = Event("convert_skip", rec.id, 0, "none")
               /\ UNCHANGED <<store, order, nextOrderId, committed>>
    /\ UNCHANGED <<envVars, cfgVars, withdrawals, deposits, start_date,
                   to_withdraw, new_deposits>>

\* PollTraded without the store of line 140.
PollTraded_unsaved ==
    /\ pc = "polling"
    /\ \E traded_amount \in 0..order.amount, total_exchanged \in 0..MaxAmount,
          paid_fee \in 0..MaxFee :
         LET rec == deposits[cursor]
             totals == traded_totals(rec, traded_amount, total_exchanged, paid_fee)
             next == AfterConvert(cursor, deposits)
         IN /\ deposits' = [deposits EXCEPT
                   ![cursor].converted_amount = totals.converted_amount,
                   ![cursor].converted_value = totals.converted_value,
                   ![cursor].orders = Append(@, order.id)]
            /\ pc' = next.pc
            /\ cursor' = next.cursor
            /\ ev' = [Event("order_traded", rec.id, 1, "none") EXCEPT
                         !.traded_amount = traded_amount,
                         !.total_exchanged = total_exchanged,
                         !.paid_fee = paid_fee]
    /\ order' = NoOrder
    /\ UNCHANGED <<envVars, cfgVars, ghostVars, start_date, to_withdraw,
                   new_deposits, nextOrderId, store>>

\* PollTraded with an order that order_details never reports traded.
PollTraded_never ==
    /\ pc = "polling"
    /\ order.id < 0
    /\ UNCHANGED vars

\* Lines 124-141: order_details reports the order traded and the loop
\* leaves; the totals are updated from what the order reports, the order is
\* recorded and the ledger stored.  A poll that finds any other state changes
\* nothing and leaves the tick where it is.  ev keeps what the order reported.
PollTraded ==
    /\ pc = "polling"
    /\ \E traded_amount \in 0..order.amount, total_exchanged \in 0..MaxAmount,
          paid_fee \in 0..MaxFee :
         LET rec == deposits[cursor]
             totals == traded_totals(rec, traded_amount, total_exchanged, paid_fee)
             next == AfterConvert(cursor, deposits)
         IN /\ deposits' = [deposits EXCEPT
                   ![cursor].converted_amount = totals.converted_amount,
                   ![cursor].converted_value = totals.converted_value,
                   ![cursor].orders = Append(@, order.id)]
            /\ store' = deposits'
            /\ pc' = next.pc
            /\ cursor' = next.cursor
            /\ ev' = [Event("order_traded", rec.id, 1, "none") EXCEPT
                         !.traded_amount = traded_amount,
                         !.total_exchanged = total_exchanged,
                         !.paid_fee = paid_fee]
    /\ order' = NoOrder
    /\ UNCHANGED <<envVars, cfgVars, ghostVars, start_date, to_withdraw,
                   new_deposits, nextOrderId>>

\* -------------------------------------------------- process_withdrawals
\* The names process_withdrawals binds (lines 143-158); the module binds
\* none of the names the two messages at lines 157 and 169-170 read.
WithdrawalNames ==
    {"self", "deposits", "to_wallet", "deposit_id", "withdrawal_amount",
     "available", "w"}

\* The two messages reading names that are bound.
raises_NameError_never(name) == FALSE

\* Reading a name that is bound neither in the function nor in the module
\* raises NameError.
raises_NameError(name) == name \notin WithdrawalNames

\* Lines 150-152: the record takes part in the withdrawal.
withdrawable(rec) ==
    /\ rec.state = "confirmed"
    /\ rec.pending_withdrawal
    /\ rec.original_amount = rec.converted_amount

\* Where the loop of process_withdrawals goes after the record at i.
AfterWithdraw(i, ledger) ==
    IF i < Len(ledger) THEN [pc |-> "withdraw", cursor |-> i + 1]
    ELSE [pc |-> "done", cursor |-> 0]

WithdrawEvent(id, notes, raised, enough, wstate) ==
    [op |-> "withdraw", id |-> id, notes |-> notes, raised |-> raised,
     eligible |-> TRUE, enough |-> enough, wstate |-> wstate,
     traded_amount |-> 0, total_exchanged |-> 0, paid_fee |-> 0]

\* The tick ends on an exception raised in process_withdrawals.
Raised ==
    /\ pc' = "idle"
    /\ deposits' = <<>>
    /\ cursor' = 0
    /\ start_date' = NoDate

\* One pass of the loop at lines 148-170.  available is the balance the
\* wallet reports, wstate the state in which the exchange would hand back a
\* withdrawal, lost whether the process dies between lines 158 and 162.
WithdrawStep ==
    /\ pc = "withdraw"
    /\ LET rec == deposits[cursor]
           next == AfterWithdraw(cursor, deposits)
           withdrawal_amount == truncate_to(rec.converted_value, to_currency)
       IN IF withdrawable(rec)
          THEN \E available \in 0..MaxAmount, wstate \in WithdrawalStates,
                  lost \in BOOLEAN :
                 IF withdrawal_amount <= available
                 THEN IF raises_NameError("converted_value")
                      THEN /\ ~lost
                           /\ Raised
                           /\ ev' = WithdrawEvent(rec.id, 0, "NameError", TRUE, wstate)
                           /\ UNCHANGED <<store, withdrawals>>
                      ELSE /\ withdrawals' = [withdrawals EXCEPT ![rec.id] =
                                  @ + (IF wstate = "pending_preparation" THEN 1 ELSE 0)]
                           /\ IF lost
                              THEN /\ Raised
                                   /\ ev' = WithdrawEvent(rec.id, 1, "killed", TRUE, wstate)
                                   /\ UNCHANGED store
                              ELSE /\ deposits' =
                                        IF wstate = "pending_preparation"
                                        THEN [deposits EXCEPT ![cursor].pending_withdrawal = FALSE]
                                        ELSE deposits
                                   /\ store' = IF wstate = "pending_preparation"
                                               THEN deposits' ELSE store
                                   /\ pc' = next.pc
                                   /\ cursor' = next.cursor
                                   /\ start_date' = start_date
                                   /\ ev' = WithdrawEvent(rec.id, 2, "none", TRUE, wstate)
                 ELSE /\ ~lost
                      /\ wstate = "rejected"
                      /\ UNCHANGED <<store, withdrawals>>
                      /\ IF raises_NameError("amount")
                         THEN /\ Raised
                              /\ ev' = WithdrawEvent(rec.id, 0, "NameError", FALSE, "none")
                         ELSE /\ pc' = next.pc
                              /\ cursor' = next.cursor
                              /\ ev' = WithdrawEvent(rec.id, 1, "none", FALSE, "none")
                              /\ UNCHANGED <<deposits, start_date>>
          ELSE /\ pc' = next.pc
               /\ cursor' = next.cursor
               /\ ev' = Event("withdraw_skip", rec.id, 0, "none")
               /\ UNCHANGED <<store, withdrawals, deposits, start_date>>
    /\ UNCHANGED <<envVars, cfgVars, committed, order, new_deposits,
                   nextOrderId, to_withdraw>>

\* ------------------------------------------------------------ the tick
\* _algorithm returned: run_once is over and the bot instance is dropped.
Finish ==
    /\ pc = "done"
    /\ pc' = "idle"
    /\ deposits' = <<>>
    /\ new_deposits' = <<>>
    /\ cursor' = 0
    /\ order' = NoOrder
    /\ to_withdraw' = FALSE
    /\ start_date' = NoDate
    /\ ev' = NoEvent
    /\ UNCHANGED <<envVars, cfgVars, ghostVars, store, nextOrderId>>

\* An exchange call raises, or the process is killed: nothing in the bot
\* catches it, so the tick ends where it stands.
Abort ==
    /\ pc \notin {"idle", "done"}
    /\ pc' = "idle"
    /\ deposits' = <<>>
    /\ new_deposits' = <<>>
    /\ cursor' = 0
    /\ order' = NoOrder
    /\ to_withdraw' = FALSE
    /\ start_date' = NoDate
    /\ ev' = NoEvent
    /\ UNCHANGED <<envVars, cfgVars, ghostVars, store, nextOrderId>>

\* ------------------------------------------------------- the environment
\* The bot reads the clock in _setup only and the deposits at line 78 only.
\* A step of the exchange taken after line 78 shows exactly as the same step
\* taken after the tick, and one taken between _setup and line 78 as the same
\* step taken just before _setup with the clock standing still: the exchange
\* and the clock move between ticks.
BotLooksLater == pc = "idle"

ExchangeNewDeposit ==
    \E id \in IdSet :
        /\ BotLooksLater
        /\ exDeposits[id] = NoDeposit
        /\ exDeposits' = [exDeposits EXCEPT ![id] =
               [id |-> id, state |-> "pending_confirmation",
                amount |-> AmountOf(id),
                created_at |-> now, address |-> AddressOf(id)]]
        /\ ev' = NoEvent
        /\ UNCHANGED <<now, cfgVars, ghostVars, store, pc, deposits,
                       start_date, to_withdraw, new_deposits,
                       cursor, order, nextOrderId>>

ExchangeSetState ==
    \E id \in IdSet, s \in DepositStates :
        /\ BotLooksLater
        /\ exDeposits[id] # NoDeposit
        /\ exDeposits[id].state # s
        /\ exDeposits' = [exDeposits EXCEPT ![id].state = s]
        /\ ev' = NoEvent
        /\ UNCHANGED <<now, cfgVars, ghostVars, store, pc, deposits,
                       start_date, to_withdraw, new_deposits,
                       cursor, order, nextOrderId>>

ClockTick ==
    /\ BotLooksLater
    /\ now < MaxTime
    /\ now' = now + 1
    /\ ev' = NoEvent
    /\ UNCHANGED <<exDeposits, cfgVars, ghostVars, store, pc, deposits,
                   start_date, to_withdraw, new_deposits,
                   cursor, order, nextOrderId>>

Next ==
    \/ Setup
    \/ UpdateOne
    \/ ConvertStep
    \/ PollTraded
    \/ WithdrawStep
    \/ Finish
    \/ Abort
    \/ ExchangeNewDeposit
    \/ ExchangeSetState
    \/ ClockTick

Spec == Init /\ [][Next]_vars

\* The ticks with the clock standing still: the clock is read once, in
\* _setup, and decides only which deposits line 81 lets through; at a
\* standing clock every listed deposit passes.
TickNext ==
    \/ Setup
    \/ UpdateOne
    \/ ConvertStep
    \/ PollTraded
    \/ WithdrawStep
    \/ Finish
    \/ Abort
    \/ ExchangeNewDeposit
    \/ ExchangeSetState

\* The bot's own steps are taken once they can be: the interpreter runs on,
\* and order_details comes to report every placed order traded.
FairSpec ==
    /\ Init
    /\ [][TickNext]_vars
    /\ WF_vars(UpdateOne)
    /\ WF_vars(ConvertStep)
    /\ WF_vars(PollTraded)
    /\ WF_vars(WithdrawStep)
    /\ WF_vars(Finish)

\* ------------------------------------------- the sell side, filled in full
SellInit == Init /\ from_currency = "btc"

\* The exchange takes every order of a positive size.
ConvertStepTaken ==
    /\ ConvertStep
    /\ ev'.op = "no_order" =>
           order_amount(deposits[cursor].original_amount
                            - deposits[cursor].converted_amount, 0) = 0

\* The exchange fills the order in full.
PollTradedInFull == PollTraded /\ ev'.traded_amount = order.amount

SellNext ==
    \/ Setup
    \/ UpdateOne
    \/ ConvertStepTaken
    \/ PollTradedInFull
    \/ WithdrawStep
    \/ Finish
    \/ ExchangeNewDeposit
    \/ ExchangeSetState

\* Ticks come again and again (run_bot is called for every event) and each
\* runs on; every order is taken and filled in full.
SellSpec ==
    /\ SellInit
    /\ [][SellNext]_vars
    /\ WF_vars(Setup)
    /\ WF_vars(UpdateOne)
    /\ WF_vars(ConvertStepTaken)
    /\ WF_vars(PollTradedInFull)
    /\ WF_vars(WithdrawStep)
    /\ WF_vars(Finish)
\* ================================================================ claims
Recorded(ledger, id) == id \in Keys(ledger)
Rec(ledger, id) == ledger[IndexOf(ledger, id)]
\* The deposits no address filter of FromAddresses holds back.
PassesEveryFilter(id) == \A a \in FromAddresses : a = "Any" \/ AddressOf(id) = a
UpdateReturned == pc \in {"convert", "polling", "withdraw", "done"}

\* C1: the source amount put into market orders for one deposit never
\* exceeds the deposit's original_amount, whatever ticks were aborted.
C1_NoDoubleConversion ==
    \A i \in 1..Len(store) :
        committed[store[i].id] <= store[i].original_amount

C3_ConvertedWithinOriginal ==
    /\ \A i \in 1..Len(store) :
           /\ 0 <= store[i].converted_amount
           /\ store[i].converted_amount <= store[i].original_amount
    /\ \A i \in 1..Len(deposits) :
           /\ 0 <= deposits[i].converted_amount
           /\ deposits[i].converted_amount <= deposits[i].original_amount

\* C4: when process_withdrawals handled a withdrawable record with the balance
\* sufficient and the exchange handing back pending_preparation, the stored
\* record has pending_withdrawal false.
C4_WithdrawalClearsFlag ==
    (ev.op = "withdraw" /\ ev.enough /\ ev.wstate = "pending_preparation")
        => /\ Recorded(store, ev.id)
           /\ ~Rec(store, ev.id).pending_withdrawal

\* C5: when process_withdrawals handled a withdrawable record with the balance
\* insufficient, nothing was raised, the tick goes on with the records after
\* it, and the record still has pending_withdrawal true.
C5_InsufficientBalanceIsSoft ==
    (ev.op = "withdraw" /\ ~ev.enough)
        => /\ ev.raised = "none"
           /\ pc \in {"withdraw", "done"}
           /\ Rec(store, ev.id).pending_withdrawal

\* C6: the lower bound of line 81 is the start date of the first execution in
\* every tick, so that a deposit the ledger holds (it was created at or after
\* the start date of the tick that recorded it) is in scope in every tick.
C6_RecordedDepositStaysInScope ==
    pc # "idle" =>
        \A id \in Keys(store) : exDeposits[id].created_at >= start_date

\* C7: once update_deposits returned, every record written by an earlier tick
\* whose deposit the exchange lists for the configured address holds the state
\* the exchange reports.
C7_StateChangeMirrored ==
    UpdateReturned =>
        \A id \in Keys(deposits) :
            PassesEveryFilter(id) => Rec(deposits, id).state = exDeposits[id].state

\* C8: a market order is placed for a record only when its stored state is
\* confirmed, and a withdrawal is requested for a record only when its stored
\* state is confirmed and converted_amount equals original_amount.
C8_GatesHold ==
    /\ ev.op = "place_order" => Rec(deposits, ev.id).state = "confirmed"
    /\ (ev.op = "withdraw" /\ ev.notes > 0 /\ ev.enough)
           => /\ Rec(store, ev.id).state = "confirmed"
              /\ Rec(store, ev.id).converted_amount = Rec(store, ev.id).original_amount

\* C8's case: an order was placed for a record.
C8_Witness == ev.op = "place_order" /\ pc = "polling"

\* C9: no record's pending_withdrawal goes from false to true, so that it
\* goes from true to false at most once.
C9_PendingWithdrawalNeverSetAgain ==
    [][\A i \in 1..Len(store) :
           ~store[i].pending_withdrawal =>
               /\ Recorded(store', store[i].id)
               /\ ~Rec(store', store[i].id).pending_withdrawal]_vars

\* C9's case: a tick configured to withdraw saw again a deposit whose record
\* has pending_withdrawal false.
C9_Witness ==
    /\ pc = "update_loop"
    /\ to_withdraw
    /\ ev.op = "update_one"
    /\ ev.notes = 0
    /\ ~Rec(deposits, ev.id).pending_withdrawal

\* C10: update_deposits run a second time over the same list of deposits
\* emits no notification and leaves the ledger as the first run left it.
C10_UpdateIdempotent ==
    (pc = "update_loop" /\ cursor = 1) =>
        LET first == update_all(deposits, new_deposits, to_withdraw)
        IN \A withdraw \in BOOLEAN :
               LET second == update_all(first.ledger, new_deposits, withdraw)
               IN second.notes = 0 /\ second.ledger = first.ledger

\* C10's case: the first run records a new deposit and changes a state.
C10_Witness ==
    /\ pc = "update_loop"
    /\ cursor = 1
    /\ update_all(deposits, new_deposits, to_withdraw).notes = 2
    /\ Len(deposits) = 1

\* C11: when the order placed for a record is traded, converted_amount grows
\* by the order's traded_amount on the sell side and by its total_exchanged on
\* the buy side, and converted_value grows by the other quantity less paid_fee.
C11_TradedTotals ==
    [][(pc = "polling" /\ ev'.op = "order_traded") =>
           LET before == deposits[cursor]
               after == Rec(store', ev'.id)
           IN /\ before.id = ev'.id
              /\ after.converted_amount = before.converted_amount
                     + (IF side = "sell" THEN ev'.traded_amount
                        ELSE ev'.total_exchanged)
              /\ after.converted_value = before.converted_value
                     + (IF side = "sell" THEN ev'.total_exchanged
                        ELSE ev'.traded_amount)
                     - ev'.paid_fee]_vars

\* C11's case: an order was traded with the two quantities different and a
\* fee paid.
C11_Witness ==
    /\ ev.op = "order_traded"
    /\ ev.traded_amount # ev.total_exchanged
    /\ ev.paid_fee > 0

\* C12: no record's converted_value decreases from one state to the next.
C12_ConvertedValueNeverDecreases ==
    [][\A i \in 1..Len(store) :
           Recorded(store', store[i].id) =>
               Rec(store', store[i].id).converted_value
                   >= store[i].converted_value]_vars

\* The order identifiers the records of a ledger hold.
OrdersOf(ledger) ==
    UNION {{ledger[i].orders[k] : k \in 1..Len(ledger[i].orders)} :
               i \in 1..Len(ledger)}

\* C13: between ticks, every order the exchange took is in the stored orders
\* of a record, whether the tick that placed it ended normally or was aborted.
C13_OrdersAuditTrail ==
    pc = "idle" => \A k \in 1..(nextOrderId - 1) : k \in OrdersOf(store)

RecordFields ==
    {"id", "state", "original_amount", "converted_amount", "converted_value",
     "orders", "pending_withdrawal"}

\* The record new differs from old in the fields of may at most.
Frame(old, new, may) == \A f \in RecordFields \ may : new[f] = old[f]

\* What a step started at pc may change in the records old holds.
LedgerFrame(old, new) ==
    /\ Len(new) >= Len(old)
    /\ \A i \in 1..Len(old) :
           /\ new[i].id = old[i].id
           /\ new[i].original_amount = old[i].original_amount
           /\ pc = "update_loop" => Frame(old[i], new[i], {"state"})
           /\ pc \in {"convert", "polling"} =>
                  Frame(old[i], new[i],
                        {"converted_amount", "converted_value", "orders"})
           /\ pc = "withdraw" => Frame(old[i], new[i], {"pending_withdrawal"})
           /\ pc \in {"idle", "done"} => new[i] = old[i]

\* C14: update_deposits changes only the state of the records it finds,
\* process_conversions only converted_amount, converted_value and orders,
\* process_withdrawals only pending_withdrawal; original_amount never changes
\* and no record leaves the ledger, in the store and in memory.
C14_FrameEffects ==
    [][/\ LedgerFrame(store, store')
       /\ (pc # "idle" /\ pc' # "idle") => LedgerFrame(deposits, deposits')]_vars

\* C14's case: update_deposits changed the state of a record that the
\* conversion had already worked on.
C14_Witness ==
    /\ ev.op = "update_one"
    /\ ev.notes = 1
    /\ Recorded(deposits, ev.id)
    /\ Rec(deposits, ev.id).orders # <<>>
    /\ Rec(deposits, ev.id).state = "pending_confirmation"

\* C15: at a record with original_amount - converted_amount = 0,
\* process_conversions places no order, notifies nothing and leaves the
\* record and the stored ledger as they are.
C15_NothingLeftIsNoOp ==
    [][(/\ pc = "convert"
        /\ deposits[cursor].original_amount
               - deposits[cursor].converted_amount = 0) =>
           /\ nextOrderId' = nextOrderId
           /\ store' = store
           /\ ev'.notes = 0
           /\ pc' # "idle" => deposits' = deposits]_vars

\* C15's case: the conversion passed a confirmed record wholly converted.
C15_Witness ==
    /\ ev.op = "convert_skip"
    /\ Rec(store, ev.id).state = "confirmed"
    /\ Rec(store, ev.id).converted_amount = Rec(store, ev.id).original_amount

\* C16: while a tick runs, at every record boundary the stored ledger is the
\* one in memory; a tick starts from the stored ledger, so it starts from
\* everything finalized before an abort.
C16_StoreEqualsMemory == pc # "idle" => deposits = store

\* C16's case: a tick places a further order for a record partly converted
\* by an earlier order.
C16_Witness ==
    /\ pc = "polling"
    /\ deposits[cursor].orders # <<>>
    /\ deposits[cursor].converted_amount > 0
    /\ deposits[cursor].converted_amount < deposits[cursor].original_amount

\* C17: when process_withdrawals handled a withdrawable record with the
\* balance sufficient and the exchange handing the withdrawal back in a state
\* other than pending_preparation, and the process was not killed meanwhile,
\* nothing was raised, the tick goes on, the stored record is still
\* withdrawable.
C17_FailedWithdrawalIsSoft ==
    (/\ ev.op = "withdraw"
     /\ ev.enough
     /\ ev.wstate # "pending_preparation"
     /\ ev.raised # "killed")
        => /\ ev.raised = "none"
           /\ pc \in {"withdraw", "done"}
           /\ withdrawable(Rec(store, ev.id))

\* C18: when the exchange returns no order for a convertible record, the
\* record is left as it is, nothing but the announcement of line 120 is
\* notified, and the loop goes on with the next record.
C18_NoOrderSkips ==
    [][(pc = "convert" /\ ev'.op = "no_order") =>
           /\ deposits' = deposits
           /\ store' = deposits
           /\ ev'.notes <= 1
           /\ IF cursor < Len(deposits)
              THEN pc' = "convert" /\ cursor' = cursor + 1
              ELSE pc' = "withdraw"]_vars

\* C18's case: no order came back and the loop stands at the next record.
C18_Witness ==
    /\ ev.op = "no_order"
    /\ pc = "convert"
    /\ cursor = 2
    /\ deposits[1].id = ev.id

\* C19: with every placed order reported traded in the end, every tick ends;
\* the polling loop is left only by the traded report (or by the tick being
\* aborted), the record and the stored ledger change only then, and the tick
\* goes on inside process_conversions or to process_withdrawals.
C19_TickTerminates ==
    /\ (pc # "idle") ~> (pc = "idle")
    /\ [][pc = "polling" =>
             \/ /\ ev'.op = "order_traded"
                /\ pc' \in {"convert", "withdraw"}
             \/ /\ pc' = "idle"
                /\ store' = store]_vars

\* C19's case: a tick that waited for an order stands in process_withdrawals.
C19_Witness ==
    /\ pc = "withdraw"
    /\ ev.op = "order_traded"

StaysConfirmed(id) ==
    Recorded(store, id) /\ Rec(store, id).state = "confirmed"

FullyConverted(id) ==
    /\ Recorded(store, id)
    /\ Rec(store, id).converted_amount = Rec(store, id).original_amount

\* C20: on the sell side with every order filled in full, a deposit whose
\* record stays confirmed comes to converted_amount = original_amount, be its
\* original_amount a multiple of the base currency's step or not.
C20_EventuallyConverted ==
    \A id \in IdSet : <>[]StaysConfirmed(id) => <>FullyConverted(id)
====
